---- MODULE Spec2Model ----
(***************************************************************************)
(* Library API (app/main.py): the books table and the request handlers     *)
(* create_book, delete_book, borrow_book and return_book.  Every request   *)
(* runs in a database session of its own (get_db); a handler is split at   *)
(* its database round trips (query, commit, refresh), between which the    *)
(* handlers of other sessions may run.  The database is PostgreSQL at its  *)
(* default isolation level: every statement sees the rows committed so     *)
(* far, and the statements flushed by db.commit() take effect atomically.  *)
(***************************************************************************)
EXTENDS Integers, FiniteSets, Sequences

\* ---------------------------------------------------------------- bounds
\* datetime.now(timezone.utc) returns a value of 1 .. MaxTimestamp.
MaxTimestamp == 2

\* The history counter net is kept within -NetCap .. NetCap: a value that
\* would leave the range is recorded as the end of the range it passes.
NetCap == 2

\* ------------------------------------------------------ program constants
BOOK_ID_GE == 100000
BOOK_ID_LE == 999999
CARD_GE == 100000
CARD_LE == 999999

\* for i in range(5)
RANGE == 5
\* if i == 4: the last attempt
LAST_ATTEMPT == 4

\* Python's None in a nullable column (borrowed_date, borrower_card_number).
None == 0

\* ---------------------------------------------------------------- inputs
\* The sessions (requests in flight at the same time).
Sessions == {"s1", "s2"}

\* book_id values of requests: the value below the range, and its lower end.
IdInputs == {BOOK_ID_GE - 1, BOOK_ID_GE}

\* The book_id values of all requests of the specifications below.
Ids == {BOOK_ID_GE - 1, BOOK_ID_GE, BOOK_ID_LE}

\* borrower_card_number values of requests: the two ends of the range, and
\* the value above it.
CardInputs == {CARD_GE, CARD_LE, CARD_LE + 1}

\* title and author of the BookCreate payloads.
TitleInputs == {<<"1984", "Orwell">>, <<"Emma", "Austen">>}

\* The values datetime.now(timezone.utc) returns.
Timestamps == 1 .. MaxTimestamp

VARIABLES
    books,      \* the rows of table "books"
    pc,         \* session -> "idle", "queried", "committed" or "done"
    req,        \* session -> the request it serves
    loaded,     \* session -> the row its query loaded ({} or {row})
    db_book,    \* session -> its ORM object db_book / new_book ({} or {row})
    outcome,    \* session -> the outcome of its request
    response,   \* session -> the record(s) its request answers (a set of rows)
    created,    \* history: book_id -> the record as its create stored it
                \* ({} when no such book is stored)
    net,        \* history: book_id -> borrows minus returns that took
                \* effect since the book was last created
    overlap,    \* history: session -> the sessions whose request on the
                \* same book_id was between its query and its commit while
                \* this one was
    i,          \* the index of the start-up loop
    phase,      \* "attempt" (in the start-up loop), "serving" (app exists)
                \* or "crashed" (the module raised while it was imported)
    attempts,   \* history: the calls of create_all so far
    slept,      \* history: the arguments of time.sleep so far, in order
    connected   \* history: a call of create_all has returned

\* The variables of the start-up loop of the module.
startup == <<i, phase, attempts, slept, connected>>

vars == <<books, pc, req, loaded, db_book, outcome, response, created, net, overlap,
          i, phase, attempts, slept, connected>>

NoReq == [op |-> "none", book_id |-> 0, title |-> "", author |-> "", card |-> 0]

\* ---------------------------------------------------------------- schemas
\* Mutant of ValidBookId: the lower end of the range (ge=100000) is missing.
ValidBookId_NoLower(id) == id <= BOOK_ID_LE

\* BookBase.book_id: Field(..., ge=100000, le=999999)
ValidBookId(id) == id >= BOOK_ID_GE /\ id <= BOOK_ID_LE

\* Mutant of ValidCard: the upper end of the range (le=999999) is missing.
ValidCard_NoUpper(c) == c >= CARD_GE

\* BorrowRequest.borrower_card_number: Field(..., ge=100000, le=999999)
ValidCard(c) == c >= CARD_GE /\ c <= CARD_LE

\* ----------------------------------------------------------------- models
\* models.Book(**book.model_dump()): is_borrowed takes its column default,
\* the nullable columns stay None.
NewBook(id, title, author) ==
    [book_id |-> id, title |-> title, author |-> author,
     is_borrowed |-> FALSE, borrowed_date |-> None, borrower_card_number |-> None]

\* The CheckConstraints of the table; a NULL card passes its check.
CheckConstraints(r) ==
    /\ r.book_id >= BOOK_ID_GE /\ r.book_id <= BOOK_ID_LE
    /\ \/ r.borrower_card_number = None
       \/ r.borrower_card_number >= CARD_GE /\ r.borrower_card_number <= CARD_LE

\* ------------------------------------------------------------- statements
\* Mutant of Query: the filter on book_id is missing.
Query_NoFilter(id) == books

\* db.query(models.Book).filter(models.Book.book_id == id)
Query(id) == {r \in books : r.book_id = id}

\* .first(): None ({}) or one row of the query
First(S) == IF S = {} THEN {} ELSE {CHOOSE r \in S : TRUE}

\* Mutant of ListAll: only the books that are not borrowed are listed.
ListAll_Available == {r \in books : ~r.is_borrowed}

\* db.query(models.Book).all()
ListAll == books

\* Mutant of PrimaryKeyFree: book_id is no key of the table.
PrimaryKeyFree_NoKey(new) == TRUE

\* Mutant of PrimaryKeyFree: the key is (book_id, title) instead of book_id.
PrimaryKeyFree_WithTitle(new) ==
    \A r \in books : r.book_id # new.book_id \/ r.title # new.title

\* The primary key of the table (book_id): the INSERT of row new is an
\* IntegrityError when a row with its book_id is stored.
PrimaryKeyFree(new) == \A r \in books : r.book_id # new.book_id

\* Mutant of UpdateRow: the UPDATE writes every column of the object.
UpdateRow_WholeObject(r, old, new) == new

\* The UPDATE that db.commit() flushes for a modified object: it sets the
\* columns whose value differs from the loaded one, in the row r found by
\* the primary key.
UpdateRow(r, old, new) ==
    [r EXCEPT
       !.is_borrowed = IF new.is_borrowed # old.is_borrowed
                       THEN new.is_borrowed ELSE @,
       !.borrower_card_number = IF new.borrower_card_number # old.borrower_card_number
                                THEN new.borrower_card_number ELSE @,
       !.borrowed_date = IF new.borrowed_date # old.borrowed_date
                         THEN new.borrowed_date ELSE @]

\* The object of a borrow after db_book.is_borrowed = True,
\* db_book.borrower_card_number = ..., db_book.borrowed_date = now.
BorrowAssign(r, card, now) ==
    [r EXCEPT !.is_borrowed = TRUE,
              !.borrower_card_number = card,
              !.borrowed_date = now]

\* Mutant of ReturnAssign: borrowed_date is not cleared.
ReturnAssign_KeepDate(r) ==
    [r EXCEPT !.is_borrowed = FALSE,
              !.borrower_card_number = None]

\* Mutant of ReturnAssign: borrower_card_number is not cleared.
ReturnAssign_KeepCard(r) ==
    [r EXCEPT !.is_borrowed = FALSE,
              !.borrowed_date = None]

\* The object of a return after db_book.is_borrowed = False,
\* db_book.borrower_card_number = None, db_book.borrowed_date = None.
ReturnAssign(r) ==
    [r EXCEPT !.is_borrowed = FALSE,
              !.borrower_card_number = None,
              !.borrowed_date = None]

\* --------------------------------------------------- checks of the handlers
\* What a handler decides from its arguments and the row its query found
\* (row is {} or {r}): the error it raises, or "proceed".

\* create_book: the BookCreate payload is validated before the handler
\* runs; then the existence check.
create_check(id, row) ==
    IF ~ValidBookId(id) THEN "ValidationError"
    ELSE IF row # {} THEN "AlreadyExists"
    ELSE "proceed"

\* Mutant of delete_check: a borrowed book is refused.
delete_check_OnlyAvailable(id, row) ==
    IF row = {} THEN "NotFound"
    ELSE IF \E r \in row : r.is_borrowed THEN "AlreadyBorrowed"
    ELSE "proceed"

\* Mutant of delete_check: the existence check is missing.
delete_check_NoExistenceCheck(id, row) == "proceed"

\* delete_book: book_id is a path parameter of type int, without a range.
delete_check(id, row) ==
    IF row = {} THEN "NotFound" ELSE "proceed"

\* Mutant of borrow_check: the is_borrowed check is missing.
borrow_check_NoStateCheck(id, card, row) ==
    IF ~ValidCard(card) THEN "ValidationError"
    ELSE IF row = {} THEN "NotFound"
    ELSE "proceed"

\* borrow_book: the BorrowRequest payload is validated before the handler
\* runs; book_id is a path parameter of type int, without a range.
borrow_check(id, card, row) ==
    IF ~ValidCard(card) THEN "ValidationError"
    ELSE IF row = {} THEN "NotFound"
    ELSE IF \E r \in row : r.is_borrowed THEN "AlreadyBorrowed"
    ELSE "proceed"

\* Mutant of return_check: the is_borrowed check is missing.
return_check_NoStateCheck(id, row) ==
    IF row = {} THEN "NotFound" ELSE "proceed"

\* return_book: book_id is a path parameter of type int, without a range.
return_check(id, row) ==
    IF row = {} THEN "NotFound"
    ELSE IF \E r \in row : ~r.is_borrowed THEN "NotBorrowed"
    ELSE "proceed"

\* The HTTP status code of an outcome: status_code of the route for OK (201,
\* 204, 200), 422 for a payload that fails validation, the status_code of
\* the HTTPException raised otherwise.
Status(op, o) ==
    IF o = "OK"
    THEN (IF op = "create" THEN 201 ELSE IF op = "delete" THEN 204 ELSE 200)
    ELSE IF o = "ValidationError" THEN 422
    ELSE IF o = "NotFound" THEN 404
    ELSE IF o \in {"AlreadyExists", "IntegrityViolation", "AlreadyBorrowed", "NotBorrowed"}
    THEN 400
    ELSE 500

\* ------------------------------------------------------------------ steps
\* The request of session w ends with outcome o and answers `resp`.
Done(w, o, resp) ==
    /\ pc' = [pc EXCEPT ![w] = "done"]
    /\ outcome' = [outcome EXCEPT ![w] = o]
    /\ response' = [response EXCEPT ![w] = resp]

\* Session w has queried the row(s) of book_id id and goes on to its commit.
Queried(w, id) ==
    LET others == {v \in Sessions \ {w} : pc[v] = "queried" /\ req[v].book_id = id}
    IN  /\ pc' = [pc EXCEPT ![w] = "queried"]
        /\ overlap' = [v \in Sessions |->
                          IF v = w THEN others
                          ELSE IF v \in others THEN overlap[v] \cup {w}
                          ELSE overlap[v]]
        /\ UNCHANGED <<outcome, response>>

\* The history counter net, one borrow (d = 1) or return (d = -1) later.
Count(n, d) ==
    IF n + d > NetCap THEN NetCap
    ELSE IF n + d < -NetCap THEN -NetCap
    ELSE n + d

Init ==
    /\ books = {}
    /\ pc = [w \in Sessions |-> "idle"]
    /\ req = [w \in Sessions |-> NoReq]
    /\ loaded = [w \in Sessions |-> {}]
    /\ db_book = [w \in Sessions |-> {}]
    /\ outcome = [w \in Sessions |-> "none"]
    /\ response = [w \in Sessions |-> {}]
    /\ created = [id \in Ids |-> {}]
    /\ net = [id \in Ids |-> 0]
    /\ overlap = [w \in Sessions |-> {}]
    /\ i = 0
    /\ phase = "serving"
    /\ attempts = 1
    /\ slept = <<>>
    /\ connected = TRUE

\* POST /books/ up to db.add(new_book): the payload is validated, the
\* existence check runs, new_book is built.
create_book(w, id, title, author) ==
    /\ phase = "serving"
    /\ pc[w] = "idle"
    /\ req' = [req EXCEPT ![w] = [op |-> "create", book_id |-> id, title |-> title,
                                  author |-> author, card |-> 0]]
    /\ LET check == create_check(id, First(Query(id)))
       IN  IF check # "proceed"
           THEN /\ Done(w, check, {})
                /\ UNCHANGED <<db_book, overlap>>
           ELSE /\ db_book' = [db_book EXCEPT ![w] = {NewBook(id, title, author)}]
                /\ Queried(w, id)
    /\ UNCHANGED <<books, loaded, created, net>>
    /\ UNCHANGED startup

\* db.commit() of create_book: the INSERT, or the IntegrityError branch
\* (rollback, status 400 "Database constraint violation").
create_book_commit(w) ==
    /\ phase = "serving"
    /\ pc[w] = "queried"
    /\ req[w].op = "create"
    /\ \E new \in db_book[w] :
         IF PrimaryKeyFree(new) /\ CheckConstraints(new)
         THEN /\ books' = books \cup {new}
              /\ created' = [created EXCEPT ![new.book_id] = {new}]
              /\ net' = [net EXCEPT ![new.book_id] = 0]
              /\ pc' = [pc EXCEPT ![w] = "committed"]
              /\ UNCHANGED <<outcome, response>>
         ELSE /\ Done(w, "IntegrityViolation", {})
              /\ UNCHANGED <<books, created, net>>
    /\ UNCHANGED <<req, loaded, db_book, overlap>>
    /\ UNCHANGED startup

\* db.refresh(obj) and the return of the handler (create, borrow, return):
\* the row is read again; a row that is gone is an InvalidRequestError,
\* which takes the `except Exception` branch (status 500).
refresh(w) ==
    /\ phase = "serving"
    /\ pc[w] = "committed"
    /\ LET row == First(Query(req[w].book_id))
       IN  IF row = {}
           THEN /\ Done(w, "InternalError", {})
                /\ UNCHANGED db_book
           ELSE /\ Done(w, "OK", row)
                /\ db_book' = [db_book EXCEPT ![w] = row]
    /\ UNCHANGED <<books, req, loaded, created, net, overlap>>
    /\ UNCHANGED startup

\* DELETE /books/{book_id} up to db.delete(db_book).
delete_book(w, id) ==
    /\ phase = "serving"
    /\ pc[w] = "idle"
    /\ req' = [req EXCEPT ![w] = [op |-> "delete", book_id |-> id, title |-> "",
                                  author |-> "", card |-> 0]]
    /\ LET row == First(Query(id))
           check == delete_check(id, row)
       IN  IF check # "proceed"
           THEN /\ Done(w, check, {})
                /\ UNCHANGED <<loaded, db_book, overlap>>
           ELSE /\ loaded' = [loaded EXCEPT ![w] = row]
                /\ db_book' = [db_book EXCEPT ![w] = row]
                /\ Queried(w, id)
    /\ UNCHANGED <<books, created, net>>
    /\ UNCHANGED startup

\* db.commit() of delete_book: DELETE ... WHERE book_id = ...; a row that is
\* gone already is a warning only.
delete_book_commit(w) ==
    /\ phase = "serving"
    /\ pc[w] = "queried"
    /\ req[w].op = "delete"
    /\ books' = books \ Query(req[w].book_id)
    /\ created' = [created EXCEPT ![req[w].book_id] = {}]
    /\ Done(w, "OK", {})
    /\ UNCHANGED <<req, loaded, db_book, net, overlap>>
    /\ UNCHANGED startup

\* PATCH /books/{book_id}/borrow up to the assignments to db_book.
borrow_book(w, id, card) ==
    /\ phase = "serving"
    /\ pc[w] = "idle"
    /\ req' = [req EXCEPT ![w] = [op |-> "borrow", book_id |-> id, title |-> "",
                                  author |-> "", card |-> card]]
    /\ LET row == First(Query(id))
           check == borrow_check(id, card, row)
       IN  IF check # "proceed"
           THEN /\ Done(w, check, {})
                /\ UNCHANGED <<loaded, db_book, overlap>>
           ELSE /\ loaded' = [loaded EXCEPT ![w] = row]
                /\ \E now \in Timestamps :
                     db_book' = [db_book EXCEPT ![w] =
                                    {BorrowAssign(r, card, now) : r \in row}]
                /\ Queried(w, id)
    /\ UNCHANGED <<books, created, net>>
    /\ UNCHANGED startup

\* PATCH /books/{book_id}/return up to the assignments to db_book.
return_book(w, id) ==
    /\ phase = "serving"
    /\ pc[w] = "idle"
    /\ req' = [req EXCEPT ![w] = [op |-> "return", book_id |-> id, title |-> "",
                                  author |-> "", card |-> 0]]
    /\ LET row == First(Query(id))
           check == return_check(id, row)
       IN  IF check # "proceed"
           THEN /\ Done(w, check, {})
                /\ UNCHANGED <<loaded, db_book, overlap>>
           ELSE /\ loaded' = [loaded EXCEPT ![w] = row]
                /\ db_book' = [db_book EXCEPT ![w] = {ReturnAssign(r) : r \in row}]
                /\ Queried(w, id)
    /\ UNCHANGED <<books, created, net>>
    /\ UNCHANGED startup

\* Mutant of update_commit: when no row has the object's primary key, the
\* object is inserted.
update_commit_Upsert(w) ==
    /\ phase = "serving"
    /\ pc[w] = "queried"
    /\ req[w].op \in {"borrow", "return"}
    /\ \E old \in loaded[w], new \in db_book[w] :
         LET target == Query(new.book_id)
             written == IF target = {} THEN {new}
                        ELSE {UpdateRow(r, old, new) : r \in target}
         IN  IF \A r \in written : CheckConstraints(r)
             THEN /\ books' = (books \ target) \cup written
                  /\ net' = [net EXCEPT ![new.book_id] =
                                Count(@, IF req[w].op = "borrow" THEN 1 ELSE -1)]
                  /\ pc' = [pc EXCEPT ![w] = "committed"]
                  /\ UNCHANGED <<outcome, response>>
             ELSE /\ Done(w, "InternalError", {})
                  /\ UNCHANGED <<books, net>>
    /\ UNCHANGED <<req, loaded, db_book, created, overlap>>
    /\ UNCHANGED startup

\* db.commit() of borrow_book and return_book: the UPDATE of the row with
\* the object's primary key.  No row matched is a StaleDataError, a failed
\* check constraint an IntegrityError: both take the `except Exception`
\* branch (rollback, status 500).
update_commit(w) ==
    /\ phase = "serving"
    /\ pc[w] = "queried"
    /\ req[w].op \in {"borrow", "return"}
    /\ \E old \in loaded[w], new \in db_book[w] :
         LET target == Query(new.book_id)
             written == {UpdateRow(r, old, new) : r \in target}
         IN  IF target # {} /\ \A r \in written : CheckConstraints(r)
             THEN /\ books' = (books \ target) \cup written
                  /\ net' = [net EXCEPT ![new.book_id] =
                                Count(@, IF req[w].op = "borrow" THEN 1 ELSE -1)]
                  /\ pc' = [pc EXCEPT ![w] = "committed"]
                  /\ UNCHANGED <<outcome, response>>
             ELSE /\ Done(w, "InternalError", {})
                  /\ UNCHANGED <<books, net>>
    /\ UNCHANGED <<req, loaded, db_book, created, overlap>>
    /\ UNCHANGED startup

\* GET /books/: one query, no commit.
get_all_books(w) ==
    /\ phase = "serving"
    /\ pc[w] = "idle"
    /\ req' = [req EXCEPT ![w] = [op |-> "list", book_id |-> 0, title |-> "",
                                  author |-> "", card |-> 0]]
    /\ Done(w, "OK", ListAll)
    /\ UNCHANGED <<books, loaded, db_book, created, net, overlap>>
    /\ UNCHANGED startup

\* The response is sent and the session closed (get_db's finally).
close(w) ==
    /\ phase = "serving"
    /\ pc[w] = "done"
    /\ pc' = [pc EXCEPT ![w] = "idle"]
    /\ req' = [req EXCEPT ![w] = NoReq]
    /\ loaded' = [loaded EXCEPT ![w] = {}]
    /\ db_book' = [db_book EXCEPT ![w] = {}]
    /\ outcome' = [outcome EXCEPT ![w] = "none"]
    /\ response' = [response EXCEPT ![w] = {}]
    /\ overlap' = [v \in Sessions |-> IF v = w THEN {} ELSE overlap[v] \ {w}]
    /\ UNCHANGED <<books, created, net>>
    /\ UNCHANGED startup

Next ==
    \E w \in Sessions :
       \/ \E id \in IdInputs, t \in TitleInputs : create_book(w, id, t[1], t[2])
       \/ create_book_commit(w)
       \/ refresh(w)
       \/ \E id \in IdInputs : delete_book(w, id)
       \/ delete_book_commit(w)
       \/ \E id \in IdInputs, card \in CardInputs : borrow_book(w, id, card)
       \/ \E id \in IdInputs : return_book(w, id)
       \/ update_commit(w)
       \/ get_all_books(w)
       \/ close(w)

Spec == Init /\ [][Next]_vars


\* ------------------------------------------------- two book_ids in range
\* The requests of Spec2: two book_ids in range, one card number, one
\* title and author.
IdInputs2 == {BOOK_ID_GE, BOOK_ID_LE}
CardInputs2 == {CARD_GE}
TitleInputs2 == {<<"1984", "Orwell">>}

Next2 ==
    \E w \in Sessions :
       \/ \E id \in IdInputs2, t \in TitleInputs2 : create_book(w, id, t[1], t[2])
       \/ create_book_commit(w)
       \/ refresh(w)
       \/ \E id \in IdInputs2 : delete_book(w, id)
       \/ delete_book_commit(w)
       \/ \E id \in IdInputs2, card \in CardInputs2 : borrow_book(w, id, card)
       \/ \E id \in IdInputs2 : return_book(w, id)
       \/ update_commit(w)
       \/ get_all_books(w)
       \/ close(w)

\* The handlers over two book_ids.
Spec2 == Init /\ [][Next2]_vars

\* --------------------------------------------- one book_id per session
\* The book_id of the requests of session w in SpecInd: the two sessions
\* work on different book_ids.
BookOf(w) == IF w = "s1" THEN BOOK_ID_GE ELSE BOOK_ID_LE

NextInd ==
    \E w \in Sessions :
       \/ \E t \in TitleInputs2 : create_book(w, BookOf(w), t[1], t[2])
       \/ create_book_commit(w)
       \/ refresh(w)
       \/ delete_book(w, BookOf(w))
       \/ delete_book_commit(w)
       \/ \E card \in CardInputs : borrow_book(w, BookOf(w), card)
       \/ return_book(w, BookOf(w))
       \/ update_commit(w)
       \/ get_all_books(w)
       \/ close(w)

\* The handlers when concurrent requests never name the same book_id.
SpecInd == Init /\ [][NextInd]_vars

\* ------------------------------------------------ storage failing at commit
\* Mutant of commit_fails: the borrow fields assigned before the failed
\* commit reach the stored row.
commit_fails_PartialWrite(w) ==
    /\ phase = "serving"
    /\ pc[w] = "queried"
    /\ req[w].op \in {"create", "delete", "borrow", "return"}
    /\ books' = (books \ Query(req[w].book_id))
                   \cup {[r EXCEPT !.is_borrowed = n.is_borrowed] :
                            r \in Query(req[w].book_id), n \in db_book[w]}
    /\ Done(w, IF req[w].op = "create" THEN "StorageUnavailable" ELSE "InternalError", {})
    /\ UNCHANGED <<req, loaded, db_book, created, net, overlap>>
    /\ UNCHANGED startup

\* db.commit() raising OperationalError (the database is unreachable): the
\* transaction is rolled back; create_book takes its OperationalError branch
\* (status 500 "Database connection error"), the other handlers their
\* `except Exception` branch (status 500).  No handler calls commit again.
commit_fails(w) ==
    /\ phase = "serving"
    /\ pc[w] = "queried"
    /\ req[w].op \in {"create", "delete", "borrow", "return"}
    /\ Done(w, IF req[w].op = "create" THEN "StorageUnavailable" ELSE "InternalError", {})
    /\ UNCHANGED <<books, req, loaded, db_book, created, net, overlap>>
    /\ UNCHANGED startup

NextFail ==
    \E w \in Sessions :
       \/ \E id \in IdInputs, t \in TitleInputs2 : create_book(w, id, t[1], t[2])
       \/ create_book_commit(w)
       \/ refresh(w)
       \/ \E id \in IdInputs : delete_book(w, id)
       \/ delete_book_commit(w)
       \/ \E id \in IdInputs, card \in CardInputs2 : borrow_book(w, id, card)
       \/ \E id \in IdInputs : return_book(w, id)
       \/ update_commit(w)
       \/ commit_fails(w)
       \/ get_all_books(w)
       \/ close(w)

\* The handlers with a database that may fail at any commit.
SpecFail == Init /\ [][NextFail]_vars

\* ------------------------------------------------------- the start-up loop
\* models.Base.metadata.create_all(bind=engine) returns: break, and the
\* module goes on to create app and its routes.
create_all ==
    /\ phase = "attempt"
    /\ attempts' = attempts + 1
    /\ connected' = TRUE
    /\ phase' = "serving"
    /\ UNCHANGED <<i, slept>>
    /\ UNCHANGED <<books, pc, req, loaded, db_book, outcome, response, created, net,
                   overlap>>

\* Mutant of create_all_raises: the last attempt is not told apart
\* (no `if i == 4: raise e`).
create_all_raises_NoReraise ==
    /\ phase = "attempt"
    /\ attempts' = attempts + 1
    /\ slept' = Append(slept, 2 ^ i)
    /\ i' = i + 1
    /\ phase' = IF i + 1 < RANGE THEN "attempt" ELSE "serving"
    /\ UNCHANGED connected
    /\ UNCHANGED <<books, pc, req, loaded, db_book, outcome, response, created, net,
                   overlap>>

\* create_all raises: on the last attempt the exception is raised again and
\* the import of the module fails; otherwise time.sleep(2**i) and the next
\* iteration (the module goes on to create app when range(5) is used up).
create_all_raises ==
    /\ phase = "attempt"
    /\ attempts' = attempts + 1
    /\ IF i = LAST_ATTEMPT
       THEN /\ phase' = "crashed"
            /\ UNCHANGED <<i, slept>>
       ELSE /\ slept' = Append(slept, 2 ^ i)
            /\ i' = i + 1
            /\ phase' = IF i + 1 < RANGE THEN "attempt" ELSE "serving"
    /\ UNCHANGED connected
    /\ UNCHANGED <<books, pc, req, loaded, db_book, outcome, response, created, net,
                   overlap>>

\* The state when the import of the module reaches the start-up loop.
InitStartup ==
    /\ books = {}
    /\ pc = [w \in Sessions |-> "idle"]
    /\ req = [w \in Sessions |-> NoReq]
    /\ loaded = [w \in Sessions |-> {}]
    /\ db_book = [w \in Sessions |-> {}]
    /\ outcome = [w \in Sessions |-> "none"]
    /\ response = [w \in Sessions |-> {}]
    /\ created = [id \in Ids |-> {}]
    /\ net = [id \in Ids |-> 0]
    /\ overlap = [w \in Sessions |-> {}]
    /\ i = 0
    /\ phase = "attempt"
    /\ attempts = 0
    /\ slept = <<>>
    /\ connected = FALSE

NextStartup ==
    \/ create_all
    \/ create_all_raises
    \/ \E w \in Sessions :
          \/ \E t \in TitleInputs2 : create_book(w, BOOK_ID_GE, t[1], t[2])
          \/ create_book_commit(w)
          \/ refresh(w)
          \/ delete_book(w, BOOK_ID_GE)
          \/ delete_book_commit(w)
          \/ \E card \in CardInputs2 : borrow_book(w, BOOK_ID_GE, card)
          \/ return_book(w, BOOK_ID_GE)
          \/ update_commit(w)
          \/ get_all_books(w)
          \/ close(w)

\* The module from its start-up loop on.  Every call of create_all returns
\* or raises (the connection attempt has a timeout) and time.sleep returns.
SpecStartup ==
    InitStartup /\ [][NextStartup]_vars /\ WF_vars(create_all \/ create_all_raises)

\* ================================================================ claims

\* C1 (as claimed): of two borrow requests for the same stored, not
\* borrowed book that both queried the record before either committed,
\* exactly one answers OK and the other AlreadyBorrowed.
C1_BorrowRaceExactlyOne ==
    \A w1 \in Sessions, w2 \in Sessions :
       ( /\ w1 # w2
         /\ pc[w1] = "done" /\ pc[w2] = "done"
         /\ req[w1].op = "borrow" /\ req[w2].op = "borrow"
         /\ req[w1].book_id = req[w2].book_id
         /\ w2 \in overlap[w1] )
       => \/ outcome[w1] = "OK" /\ outcome[w2] = "AlreadyBorrowed"
          \/ outcome[w1] = "AlreadyBorrowed" /\ outcome[w2] = "OK"

\* C2: no two stored books share a book_id, and a create_book request that
\* finds its book_id stored ends at once with AlreadyExists and the table
\* unchanged (a create_book whose INSERT meets a book_id stored since its
\* existence check ends with the constraint violation and the table
\* unchanged).
C2_UniqueBookId ==
    /\ [](\A r1 \in books, r2 \in books : r1.book_id = r2.book_id => r1 = r2)
    /\ [][\A w \in Sessions :
            /\ ( /\ pc[w] = "idle"
                 /\ req'[w].op = "create"
                 /\ Query(req'[w].book_id) # {} )
               => ( /\ pc'[w] = "done"
                    /\ outcome'[w] = "AlreadyExists"
                    /\ books' = books )
            /\ ( /\ pc[w] = "queried"
                 /\ req[w].op = "create"
                 /\ pc'[w] # "queried"
                 /\ Query(req[w].book_id) # {} )
               => ( /\ pc'[w] = "done"
                    /\ outcome'[w] = "IntegrityViolation"
                    /\ books' = books )]_vars

\* C2 witness: a create_book of a stored, borrowed book with another title
\* has answered AlreadyExists, and the stored record is the one its create
\* stored, borrowed.
C2_Witness ==
    \E w \in Sessions :
       /\ pc[w] = "done"
       /\ req[w].op = "create"
       /\ outcome[w] = "AlreadyExists"
       /\ \E r \in books :
            /\ r.book_id = req[w].book_id
            /\ r.title # req[w].title
            /\ r.is_borrowed

\* C3: every stored book has is_borrowed true iff borrowed_date is set iff
\* borrower_card_number is set.
C3_BorrowFieldsAgree ==
    \A r \in books :
       /\ r.is_borrowed <=> r.borrowed_date # None
       /\ r.is_borrowed <=> r.borrower_card_number # None

\* C3 witness: a borrow and a return of the same book raced (both queried
\* before either committed), both have answered, and the book is stored.
C3_Witness ==
    \E w1 \in Sessions, w2 \in Sessions :
       /\ pc[w1] = "done" /\ req[w1].op = "borrow" /\ outcome[w1] = "OK"
       /\ pc[w2] = "done" /\ req[w2].op = "return" /\ outcome[w2] = "OK"
       /\ w2 \in overlap[w1]
       /\ Query(req[w1].book_id) # {}

\* C4 (as claimed): for every stored book, the borrows minus the returns
\* that took effect since it was created are 0 or 1, and 1 exactly when
\* is_borrowed is true.
C4_NoLostUpdate ==
    \A r \in books :
       /\ net[r.book_id] \in {0, 1}
       /\ net[r.book_id] = 1 <=> r.is_borrowed

\* C5: of two create_book requests with the same book_id that both passed
\* the existence check before either committed, exactly one answers OK and
\* the other fails (with the constraint violation); one record with that
\* book_id is stored, with the title and author of the request that
\* answered OK.
C5_CreateRaceExactlyOne ==
    \A w1 \in Sessions, w2 \in Sessions :
       ( /\ w1 # w2
         /\ pc[w1] = "done" /\ pc[w2] = "done"
         /\ req[w1].op = "create" /\ req[w2].op = "create"
         /\ req[w1].book_id = req[w2].book_id
         /\ w2 \in overlap[w1] )
       => \E win \in {w1, w2} :
             /\ outcome[win] = "OK"
             /\ \A lose \in {w1, w2} \ {win} : outcome[lose] = "IntegrityViolation"
             /\ Cardinality(Query(req[win].book_id)) = 1
             /\ \A r \in Query(req[win].book_id) :
                  r.title = req[win].title /\ r.author = req[win].author

\* C5 witness: two racing create_book requests with different titles have
\* both answered.
C5_Witness ==
    \E w1 \in Sessions, w2 \in Sessions :
       /\ w1 # w2
       /\ pc[w1] = "done" /\ pc[w2] = "done"
       /\ req[w1].op = "create" /\ req[w2].op = "create"
       /\ req[w1].book_id = req[w2].book_id
       /\ req[w1].title # req[w2].title
       /\ w2 \in overlap[w1]
       /\ outcome[w1] = "OK"

\* C6 (as claimed): a borrow_book request that finds its book stored with
\* is_borrowed true ends with AlreadyBorrowed, whatever its card number,
\* and leaves the table unchanged.
C6_BorrowedAnyCard ==
    [][\A w \in Sessions :
         ( /\ pc[w] = "idle"
           /\ req'[w].op = "borrow"
           /\ \E r \in Query(req'[w].book_id) : r.is_borrowed )
         => ( /\ pc'[w] = "done"
              /\ outcome'[w] = "AlreadyBorrowed"
              /\ books' = books )]_vars

\* C6 (amended): a borrow_book request that finds its book stored with
\* is_borrowed true ends with AlreadyBorrowed when its card number lies in
\* [100000, 999999] and with ValidationError when it does not; either way
\* the table is unchanged.
C6_BorrowedValidCard ==
    [][\A w \in Sessions :
         ( /\ pc[w] = "idle"
           /\ req'[w].op = "borrow"
           /\ \E r \in Query(req'[w].book_id) : r.is_borrowed )
         => ( /\ pc'[w] = "done"
              /\ outcome'[w] = IF req'[w].card \in CARD_GE .. CARD_LE
                               THEN "AlreadyBorrowed" ELSE "ValidationError"
              /\ books' = books )]_vars

\* C6 witness: a borrow_book with a valid card other than the borrower's
\* has answered AlreadyBorrowed, and the stored record is borrowed with the
\* borrower's card.
C6_Witness ==
    \E w \in Sessions :
       /\ pc[w] = "done"
       /\ req[w].op = "borrow"
       /\ outcome[w] = "AlreadyBorrowed"
       /\ \E r \in Query(req[w].book_id) :
            /\ r.is_borrowed
            /\ r.borrower_card_number # req[w].card
            /\ r.borrowed_date # None

\* C7: a return_book request that finds its book stored with is_borrowed
\* false ends with NotBorrowed and leaves the table unchanged.
C7_ReturnNotBorrowed ==
    [][\A w \in Sessions :
         ( /\ pc[w] = "idle"
           /\ req'[w].op = "return"
           /\ \E r \in Query(req'[w].book_id) : ~r.is_borrowed )
         => ( /\ pc'[w] = "done"
              /\ outcome'[w] = "NotBorrowed"
              /\ books' = books )]_vars

\* C7 witness: a return_book has answered NotBorrowed and its book is
\* stored, not borrowed.
C7_Witness ==
    \E w \in Sessions :
       /\ pc[w] = "done"
       /\ req[w].op = "return"
       /\ outcome[w] = "NotBorrowed"
       /\ \E r \in Query(req[w].book_id) : ~r.is_borrowed

\* C8: every stored book with is_borrowed false (after its creation, and
\* after every borrow followed by a return) is the record its create
\* stored: book_id, title and author as created, borrowed_date and
\* borrower_card_number null.
C8_RoundTrip ==
    \A r \in books : ~r.is_borrowed => created[r.book_id] = {r}

\* C8 witness: a return_book has answered OK with the record as created,
\* and that record is the stored one.
C8_Witness ==
    \E w \in Sessions :
       /\ pc[w] = "done"
       /\ req[w].op = "return"
       /\ outcome[w] = "OK"
       /\ response[w] # {}
       /\ response[w] = created[req[w].book_id]
       /\ response[w] = Query(req[w].book_id)

\* C9: a create_book with a book_id outside [100000, 999999] and a
\* borrow_book with a card number outside [100000, 999999] end at once with
\* ValidationError and the table unchanged, whatever is stored.
C9_RangeValidation ==
    [][\A w \in Sessions :
         ( /\ pc[w] = "idle"
           /\ \/ req'[w].op = "create" /\ ~(req'[w].book_id \in BOOK_ID_GE .. BOOK_ID_LE)
              \/ req'[w].op = "borrow" /\ ~(req'[w].card \in CARD_GE .. CARD_LE) )
         => ( /\ pc'[w] = "done"
              /\ outcome'[w] = "ValidationError"
              /\ books' = books )]_vars

\* C9 witness: a borrow_book of a stored, borrowed book with a card number
\* out of range and a create_book with a book_id out of range have both
\* answered ValidationError.
C9_Witness ==
    \E w1 \in Sessions, w2 \in Sessions :
       /\ pc[w1] = "done" /\ req[w1].op = "borrow"
       /\ outcome[w1] = "ValidationError"
       /\ \E r \in Query(req[w1].book_id) : r.is_borrowed
       /\ pc[w2] = "done" /\ req[w2].op = "create"
       /\ outcome[w2] = "ValidationError"

\* C10 (as claimed): a delete_book, borrow_book or return_book with a
\* book_id outside [100000, 999999] ends with ValidationError.
C10_PathIdValidated ==
    \A w \in Sessions :
       ( /\ pc[w] = "done"
         /\ req[w].op \in {"delete", "borrow", "return"}
         /\ ~(req[w].book_id \in BOOK_ID_GE .. BOOK_ID_LE) )
       => outcome[w] = "ValidationError"

\* C11: a delete_book, borrow_book or return_book request that finds no
\* record of its book_id ends at once with NotFound (a borrow_book whose
\* card number is out of range: with ValidationError) and leaves the table
\* unchanged: no record is created.
C11_NotFound ==
    [][\A w \in Sessions :
         ( /\ pc[w] = "idle"
           /\ req'[w].op \in {"delete", "borrow", "return"}
           /\ Query(req'[w].book_id) = {} )
         => ( /\ pc'[w] = "done"
              /\ outcome'[w] =
                   IF req'[w].op = "borrow" /\ ~(req'[w].card \in CARD_GE .. CARD_LE)
                   THEN "ValidationError" ELSE "NotFound"
              /\ books' = books )]_vars

\* C11 witness: a delete_book and a borrow_book (valid card) of a book_id
\* in range have both answered NotFound, and no record of it is stored.
C11_Witness ==
    \E w1 \in Sessions, w2 \in Sessions :
       /\ pc[w1] = "done" /\ req[w1].op = "delete" /\ outcome[w1] = "NotFound"
       /\ pc[w2] = "done" /\ req[w2].op = "borrow" /\ outcome[w2] = "NotFound"
       /\ req[w1].book_id = BOOK_ID_GE /\ req[w2].book_id = BOOK_ID_GE
       /\ Query(BOOK_ID_GE) = {}

\* C12 (as claimed): the record a borrow_book answers with OK has
\* is_borrowed true, a borrowed_date, and the card number of that request.
C12_BorrowAnswersOwnCard ==
    \A w \in Sessions :
       (pc[w] = "done" /\ req[w].op = "borrow" /\ outcome[w] = "OK")
       => /\ response[w] # {}
          /\ \A r \in response[w] :
               /\ r.is_borrowed
               /\ r.borrowed_date # None
               /\ r.borrower_card_number = req[w].card

\* C13 (as claimed): the record a create_book answers with OK has the
\* book_id, title and author of that request, is_borrowed false and null
\* borrowed_date and borrower_card_number.
C13_CreateAnswersNewBook ==
    \A w \in Sessions :
       (pc[w] = "done" /\ req[w].op = "create" /\ outcome[w] = "OK")
       => response[w] = {NewBook(req[w].book_id, req[w].title, req[w].author)}

\* C14: delete_book on a stored book goes on to its commit whether the book
\* is borrowed or not, and when the delete commits it succeeds, the book_id
\* is absent from the query by book_id and from the list of all books, and
\* the records of every other book_id are what they were.
C14_DeleteEitherState ==
    [][\A w \in Sessions :
         /\ ( /\ pc[w] = "idle"
              /\ req'[w].op = "delete"
              /\ Query(req'[w].book_id) # {} )
            => ( /\ pc'[w] = "queried"
                 /\ books' = books )
         /\ ( /\ pc[w] = "queried"
              /\ req[w].op = "delete"
              /\ pc'[w] = "done" )
            => ( /\ outcome'[w] = "OK"
                 /\ Query(req[w].book_id)' = {}
                 /\ \A r \in ListAll' : r.book_id # req[w].book_id
                 /\ {r \in books' : r.book_id # req[w].book_id}
                      = {r \in books : r.book_id # req[w].book_id} )]_vars

\* A delete of a borrowed book has succeeded, the book is gone and a
\* borrowed book with another book_id is still stored.
C14_Witness ==
    \E w \in Sessions :
       /\ pc[w] = "done"
       /\ req[w].op = "delete"
       /\ outcome[w] = "OK"
       /\ \E r \in loaded[w] : r.is_borrowed
       /\ Query(req[w].book_id) = {}
       /\ \E r \in books : r.book_id # req[w].book_id /\ r.is_borrowed

\* C15: in every reachable state the book_id of every stored book lies in
\* [100000, 999999] and its borrower_card_number is null or lies in
\* [100000, 999999]; the same holds of every record a handler has prepared
\* for its commit.
C15_StoredInRange ==
    /\ \A r \in books :
         /\ r.book_id \in BOOK_ID_GE .. BOOK_ID_LE
         /\ \/ r.borrower_card_number = None
            \/ r.borrower_card_number \in CARD_GE .. CARD_LE
    /\ \A w \in Sessions :
         pc[w] = "queried" =>
            \A r \in db_book[w] :
               /\ r.book_id \in BOOK_ID_GE .. BOOK_ID_LE
               /\ \/ r.borrower_card_number = None
                  \/ r.borrower_card_number \in CARD_GE .. CARD_LE

\* A book borrowed with the largest card number is stored, a create with a
\* book_id below the range and a borrow with a card number above the range
\* have been rejected.
C15_Witness ==
    /\ \E r \in books : r.book_id = BOOK_ID_GE /\ r.borrower_card_number = CARD_LE
    /\ \E w1, w2 \in Sessions :
          /\ pc[w1] = "done" /\ req[w1].op = "create"
          /\ req[w1].book_id = BOOK_ID_GE - 1 /\ outcome[w1] = "ValidationError"
          /\ pc[w2] = "done" /\ req[w2].op = "borrow"
          /\ req[w2].card = CARD_LE + 1 /\ outcome[w2] = "ValidationError"

\* C16: a stored book keeps its book_id, title and author for as long as it
\* is stored; the commit of a borrow or of a return changes at most
\* is_borrowed, borrowed_date and borrower_card_number of the stored record,
\* and the stored records change only in the commit of a create, a delete,
\* a borrow or a return.
C16_FixedFields ==
    [][/\ \A r \in books : \A n \in books' :
            r.book_id = n.book_id => (r.title = n.title /\ r.author = n.author)
       /\ \A w \in Sessions :
            (pc[w] = "queried" /\ req[w].op \in {"borrow", "return"} /\ pc'[w] # pc[w])
            => {<<r.book_id, r.title, r.author>> : r \in books'}
                 = {<<r.book_id, r.title, r.author>> : r \in books}
       /\ books' # books
            => \E w \in Sessions :
                  /\ pc[w] = "queried"
                  /\ pc'[w] \in {"committed", "done"}
                  /\ req[w].op \in {"create", "delete", "borrow", "return"}]_vars

\* A borrow has committed on a record created, under the same book_id but
\* with another title, after the borrow's query.
C16_Witness ==
    \E w \in Sessions :
       /\ pc[w] = "committed"
       /\ req[w].op = "borrow"
       /\ \E l \in loaded[w], r \in Query(req[w].book_id) :
             /\ l.title # r.title
             /\ r.is_borrowed

\* C17: when concurrent requests name different book_ids, a step of a
\* request changes no record of another book_id, and every request sees and
\* leaves the record of its own book_id as it would with no other request
\* running: the record is unchanged between its query and its commit, its
\* commit never fails, and its outcome and answer are those of the record
\* it found and the record it wrote.
C17_Independent ==
    /\ [][\A w \in Sessions :
            pc'[w] # pc[w] =>
               LET id == IF pc[w] = "idle" THEN req'[w].book_id ELSE req[w].book_id
               IN  {r \in books' : r.book_id # id} = {r \in books : r.book_id # id}]_vars
    /\ [](\A w \in Sessions :
            LET op == req[w].op
                row == {r \in books : r.book_id = req[w].book_id}
            IN  /\ pc[w] = "queried" =>
                      IF op = "create" THEN row = {} ELSE row = loaded[w]
                /\ pc[w] = "committed" => row = db_book[w]
                /\ pc[w] = "done" /\ op # "list" =>
                      /\ outcome[w] \notin {"IntegrityViolation", "InternalError"}
                      /\ outcome[w] \in {"NotFound"} => row = {}
                      /\ outcome[w] \in {"AlreadyExists", "AlreadyBorrowed", "NotBorrowed"}
                            => row # {}
                      /\ outcome[w] = "AlreadyBorrowed" => \A r \in row : r.is_borrowed
                      /\ outcome[w] = "NotBorrowed" => \A r \in row : ~r.is_borrowed
                      /\ outcome[w] = "OK" =>
                            /\ op = "delete" => row = {}
                            /\ op = "create" =>
                                  /\ row = {NewBook(req[w].book_id, req[w].title,
                                                    req[w].author)}
                                  /\ response[w] = row
                            /\ op = "borrow" =>
                                  /\ row # {}
                                  /\ response[w] = row
                                  /\ \A r \in row :
                                        /\ r.is_borrowed
                                        /\ r.borrower_card_number = req[w].card
                            /\ op = "return" =>
                                  /\ row # {}
                                  /\ response[w] = row
                                  /\ \A r \in row :
                                        /\ ~r.is_borrowed
                                        /\ r.borrower_card_number = None
                                        /\ r.borrowed_date = None)

\* A borrow of one book_id has answered while a return of the other
\* book_id, whose record is borrowed, is between its commit and its answer.
C17_Witness ==
    /\ pc["s1"] = "done" /\ req["s1"].op = "borrow" /\ outcome["s1"] = "OK"
    /\ pc["s2"] = "committed" /\ req["s2"].op = "return"
    /\ \E r \in books : r.book_id = BOOK_ID_GE /\ r.is_borrowed
    /\ \E r \in books : r.book_id = BOOK_ID_LE /\ ~r.is_borrowed

\* C18: when db.commit() of a create, delete, borrow or return fails because
\* the storage is unavailable, the request ends with a failure whose status
\* (500) differs from the status of every validation and business error,
\* the stored records are what they were before the step, and the request
\* does nothing further but close: it makes no second attempt.
C18_CommitFailure ==
    [][\A w \in Sessions :
         /\ ( /\ pc[w] = "queried"
              /\ pc'[w] = "done"
              /\ outcome'[w] \in {"StorageUnavailable", "InternalError"} )
            => ( /\ books' = books
                 /\ Status(req[w].op, outcome'[w]) = 500
                 /\ \A o \in {"ValidationError", "AlreadyExists", "NotFound",
                              "AlreadyBorrowed", "NotBorrowed"} :
                       Status(req[w].op, o) # Status(req[w].op, outcome'[w]) )
         /\ ( /\ pc[w] = "done"
              /\ outcome[w] \in {"StorageUnavailable", "InternalError"}
              /\ pc'[w] # pc[w] )
            => ( /\ pc'[w] = "idle"
                 /\ books' = books )]_vars

\* The commit of a borrow has failed with the record still stored as the
\* borrow found it, not borrowed, and the commit of a create has failed.
C18_Witness ==
    \E w1, w2 \in Sessions :
       /\ pc[w1] = "done" /\ req[w1].op = "borrow" /\ outcome[w1] = "InternalError"
       /\ loaded[w1] # {}
       /\ Query(req[w1].book_id) = loaded[w1]
       /\ \A r \in loaded[w1] : ~r.is_borrowed /\ r.borrower_card_number = None
       /\ pc[w2] = "done" /\ req[w2].op = "create" /\ outcome[w2] = "StorageUnavailable"

\* C19: get_all_books changes no stored record and always succeeds: it
\* answers with exactly the records stored at that moment, the empty
\* collection when none is stored, and no book_id twice.
C19_ListAll ==
    [][\A w \in Sessions :
         (pc[w] = "idle" /\ req'[w].op = "list")
         => ( /\ books' = books
              /\ pc'[w] = "done"
              /\ outcome'[w] = "OK"
              /\ Status("list", outcome'[w]) = 200
              /\ response'[w] = books
              /\ \A r1, r2 \in response'[w] :
                    r1.book_id = r2.book_id => r1 = r2 )]_vars

\* One list has answered with no record, a later one with two records,
\* one of them borrowed.
C19_Witness ==
    \E w1, w2 \in Sessions :
       /\ pc[w1] = "done" /\ req[w1].op = "list" /\ outcome[w1] = "OK"
       /\ response[w1] = {}
       /\ pc[w2] = "done" /\ req[w2].op = "list" /\ outcome[w2] = "OK"
       /\ response[w2] = books
       /\ \E r1, r2 \in response[w2] :
             r1.book_id # r2.book_id /\ r1.is_borrowed /\ ~r2.is_borrowed

\* C20: when a delete commits, the record of its book_id is absent; a
\* record of a book_id that has none appears only in the commit of a create
\* with that book_id; the commit of a borrow or a return that finds its
\* record gone fails and stores nothing.
C20_DeleteNotUndone ==
    [][/\ \A w \in Sessions :
            (pc[w] = "queried" /\ req[w].op = "delete" /\ pc'[w] = "done")
            => ( /\ outcome'[w] = "OK"
                 /\ {r \in books' : r.book_id = req[w].book_id} = {} )
       /\ \A id \in Ids :
            ( /\ {r \in books : r.book_id = id} = {}
              /\ {r \in books' : r.book_id = id} # {} )
            => \E w \in Sessions :
                  /\ pc[w] = "queried"
                  /\ req[w].op = "create"
                  /\ req[w].book_id = id
                  /\ pc'[w] = "committed"
       /\ \A w \in Sessions :
            ( /\ pc[w] = "queried"
              /\ req[w].op \in {"borrow", "return"}
              /\ {r \in books : r.book_id = req[w].book_id} = {}
              /\ pc'[w] # pc[w] )
            => ( /\ pc'[w] = "done"
                 /\ outcome'[w] = "InternalError"
                 /\ books' = books )]_vars

\* A delete has succeeded while a borrow that had read the record was
\* waiting to commit; the borrow's commit has failed and the record is
\* absent.
C20_Witness ==
    \E w1, w2 \in Sessions :
       /\ pc[w1] = "done" /\ req[w1].op = "borrow" /\ outcome[w1] = "InternalError"
       /\ loaded[w1] # {}
       /\ pc[w2] = "done" /\ req[w2].op = "delete" /\ outcome[w2] = "OK"
       /\ req[w2].book_id = req[w1].book_id
       /\ net[req[w1].book_id] = 0
       /\ Query(req[w1].book_id) = {}

\* C21: the start-up loop calls create_all at most 5 times and not again
\* after a call that returned; after the failed attempts number 1, 2, 3, 4
\* it has slept 1, 2, 4, 8 seconds, one wait per failed attempt; after a
\* fifth failure it raises with no fifth wait and without ever having
\* connected; the loop always ends, either serving or crashed; and requests
\* are served, and records stored, only after a call of create_all returned.
C21_StartupLoop ==
    /\ [](/\ attempts <= 5
          /\ Len(slept) <= 4
          /\ slept = SubSeq(<<1, 2, 4, 8>>, 1, Len(slept))
          /\ phase = "attempt" => (attempts = Len(slept) /\ ~connected)
          /\ phase = "crashed" =>
                (attempts = 5 /\ slept = <<1, 2, 4, 8>> /\ ~connected)
          /\ phase = "serving" => (connected /\ attempts = Len(slept) + 1)
          /\ phase # "serving" =>
                (books = {} /\ \A w \in Sessions : pc[w] = "idle" /\ req[w] = NoReq))
    /\ [][/\ connected => (attempts' = attempts /\ slept' = slept)
          /\ phase \in {"serving", "crashed"} => UNCHANGED <<phase, attempts, slept>>
          /\ attempts' # attempts => attempts' = attempts + 1]_vars
    /\ <>(phase \in {"serving", "crashed"})

\* The fifth call of create_all returned after four failures and four
\* waits, and a book has been stored since.
C21_Witness ==
    /\ phase = "serving"
    /\ attempts = 5
    /\ slept = <<1, 2, 4, 8>>
    /\ connected
    /\ books # {}

====
